---- MODULE Spec2Model ----
(***************************************************************************)
(* Model of src/index.ts: the "Tap Place" component (tap-to-spawn state    *)
(* machine with a 500 ms cooldown) and its entity cloner.                  *)
(*                                                                         *)
(* The world is a table of components per entity id.  comps[e] is a        *)
(* function whose domain is the set of component kinds entity e has, so    *)
(* component.has(world, e) is "kind \in DOMAIN comps[e]".                  *)
(*                                                                         *)
(* Scales are exact rationals kept as integers in units of 1/RDen: the     *)
(* random draw Math.random() is r/RDen with r in 0..RDen-1.                *)
(***************************************************************************)
EXTENDS Integers, Sequences, FiniteSets, TLC

(* ---------------- bounds of the model ---------------- *)

\* clock readings (Date.now()) are 501 * k - 1 and 501 * k with k in
\* 0..MaxPeriods (0, 500, 501, 1001, 1002, ...), so that gaps of exactly 500
\* and of 501 both occur
MaxPeriods == 2

\* Math.random() is drawn from {0/RDen, ..., (RDen-1)/RDen}
RDen == 2

\* at most MaxSpawned entities are created by world.createEntity()
MaxSpawned == 2

(* ---------------- program constants ---------------- *)

\* src/index.ts:186  the cooldown of the touch listener
Cooldown == 500

\* src/index.ts:208  duration of the grow-in animation
AnimDuration == 400

\* src/index.ts:168  ecs.f64 data field, zero until first written
InitialInteractionTime == 0

\* src/index.ts:164-165  schemaDefaults
DefaultMinScale == 1

DefaultMaxScale == 3

(* ---------------- the world ---------------- *)

\* entities that carry the "Tap Place" component
Controllers == {1, 2}

\* entities that exist in the scene and can serve as template
Templates == {3, 4}

\* an entity id that refers to no entity of the world
DanglingEid == Cardinality(Controllers \cup Templates) + 1

\* first id handed out by world.createEntity()
FirstFreeEid == DanglingEid + 1

\* the unset entityToSpawn (falsy eid)
NoEid == 0

Eids == 1..(FirstFreeEid + MaxSpawned)

Times == {501 * k - d : k \in 0..MaxPeriods, d \in {0, 1}} \cap Nat

WorldPosition(i) == [x |-> i, y |-> 0, z |-> 0 - i]

\* the touch events of controller c carry the world position WorldPosition(c)
TouchPositions == {WorldPosition(c) : c \in Controllers}

\* a registry that also lists the Disabled kind
componentsForCloneWithDisabled ==
  << "Position", "Quaternion", "Scale", "Shadow", "BoxGeometry", "Material",
     "ScaleAnimation", "PositionAnimation", "RotateAnimation",
     "CustomPropertyAnimation", "CustomVec3Animation", "FollowAnimation",
     "LookAtAnimation", "GltfModel", "Collider", "ParticleEmitter", "Ui",
     "Audio", "Disabled" >>

\* src/index.ts:126-145
componentsForClone ==
  << "Position", "Quaternion", "Scale", "Shadow", "BoxGeometry", "Material",
     "ScaleAnimation", "PositionAnimation", "RotateAnimation",
     "CustomPropertyAnimation", "CustomVec3Animation", "FollowAnimation",
     "LookAtAnimation", "GltfModel", "Collider", "ParticleEmitter", "Ui",
     "Audio" >>

RegistryKinds == {componentsForClone[i] : i \in 1..Len(componentsForClone)}

VARIABLES
  entities,             \* live entity ids of the world
  nextEid,              \* next id world.createEntity() returns
  comps,                \* comps[e]: kind -> value, for the kinds e has
  schema,               \* schema[c]: entityToSpawn, minScale, maxScale
  lastInteractionTime,  \* data attribute of each controller
  ctrlState,            \* "none" before the state machine starts, then "default"
  errorLog,             \* per controller, its console.error calls (with the clock reading)
  acceptedLog,          \* history: per controller, clock readings of accepted taps
  spawnLog,             \* history: per spawned entity, the tap that made it
  rejectedAtEdge,       \* history: the last handler run rejected a tap whose
                        \* clock reading was lastInteractionTime + 500
  lastClone,            \* history: source and target of the last call of
                        \* cloneComponents made outside the touch listener
  login                 \* the LIFF login flow: its position, what it has
                        \* stored, displayed and logged, and the steps done

vars == << entities, nextEid, comps, schema, lastInteractionTime, ctrlState,
           errorLog, acceptedLog, spawnLog, rejectedAtEdge, lastClone,
           login >>

\* the variables of the Tap Place component and of the world
tapVars == << entities, nextEid, comps, schema, lastInteractionTime, ctrlState,
              errorLog, acceptedLog, spawnLog, rejectedAtEdge, lastClone >>

(* ---------------- component tables ---------------- *)

Has(w, kind, e) == kind \in DOMAIN w[e]

Get(w, kind, e) == w[e][kind]

\* component.set(world, e, value)
SetComponent(w, kind, e, value) ==
  [w EXCEPT ![e] = [k \in (DOMAIN w[e]) \cup {kind} |->
                      IF k = kind THEN value ELSE w[e][k]]]

\* the value of a kind on a template of the initial scene
TemplateValue(kind, variant) ==
  IF kind = "Position" THEN WorldPosition(0 - variant)
  ELSE IF kind = "ScaleAnimation"
       THEN [fromX |-> variant, fromY |-> variant, fromZ |-> variant,
             toX |-> 7 * variant, toY |-> 7 * variant, toZ |-> 7 * variant,
             duration |-> 1000, loop |-> TRUE, easeOut |-> FALSE,
             easingFunction |-> "Linear"]
       ELSE [kind |-> kind, v |-> variant]

\* the kinds of template 3 (no Position, no ScaleAnimation, no Audio);
\* template 4 has every kind of the registry
SmallTemplateKinds == {"Quaternion", "Material", "GltfModel"}

\* the template references of the initial scene: the first controller has
\* none, a dangling one or template 3, the other controllers none or template 4
TemplateRefs(c) == IF c = 1 THEN {NoEid, DanglingEid, 3} ELSE {NoEid, 4}

\* the scale ranges of the initial scene: the schemaDefaults, a range with
\* minScale = maxScale and one with maxScale < minScale (the code does not
\* validate the range)
ScaleRanges ==
  { [minScale |-> DefaultMinScale, maxScale |-> DefaultMaxScale],
    [minScale |-> 2, maxScale |-> 2],
    [minScale |-> 3, maxScale |-> 1] }

\* the schemas of the initial scene: the first controller has any of the
\* scale ranges, the other controllers keep the schemaDefaults
Schemas ==
  { s \in [Controllers -> [entityToSpawn : {NoEid, DanglingEid} \cup Templates,
                           minScale : 1..3, maxScale : 1..3]] :
      /\ \A c \in Controllers : s[c].entityToSpawn \in TemplateRefs(c)
      /\ [minScale |-> s[1].minScale, maxScale |-> s[1].maxScale] \in ScaleRanges
      /\ \A c \in Controllers \ {1} : /\ s[c].minScale = DefaultMinScale
                                      /\ s[c].maxScale = DefaultMaxScale }

NoComponents == [k \in {} |-> 0]

NoClone == [source |-> NoEid, target |-> NoEid]

\* lines 3-32: the async function has run up to its first await, the load of
\* the LIFF SDK
LoginStart ==
  [pc |-> "loadSdk", steps |-> << >>, failed |-> "none", userInfo |-> FALSE,
   loginCalls |-> 0, stored |-> 0, xr8Stored |-> 0, displays |-> 0,
   modules |-> 0, errors |-> 0, escaped |-> FALSE]

Init ==
  /\ entities = Controllers \cup Templates
  /\ nextEid = FirstFreeEid
  /\ comps = [e \in Eids |->
                IF e = 3 THEN [k \in SmallTemplateKinds |-> TemplateValue(k, 1)]
                ELSE IF e = 4 THEN [k \in RegistryKinds |-> TemplateValue(k, 2)]
                ELSE NoComponents]
  /\ schema \in Schemas
  /\ lastInteractionTime = [c \in Controllers |-> InitialInteractionTime]
  /\ ctrlState = [c \in Controllers |-> "none"]
  /\ errorLog = [c \in Controllers |-> << >>]
  /\ acceptedLog = [c \in Controllers |-> << >>]
  /\ spawnLog = [e \in {} |-> 0]
  /\ rejectedAtEdge = FALSE
  /\ lastClone = NoClone
  /\ login = LoginStart

(* ---------------- Entity cloner: src/index.ts:147-154 ---------------- *)

\* a cloner whose set() is given the source entity instead of the target
CloneOneOntoSource(w, kind, sourceEid, targetEid) ==
  IF Has(w, kind, sourceEid)
  THEN SetComponent(w, kind, sourceEid, Get(w, kind, sourceEid))
  ELSE w

\* a cloner that keeps a value the target already has
CloneOneKeepExisting(w, kind, sourceEid, targetEid) ==
  IF Has(w, kind, sourceEid) /\ ~ Has(w, kind, targetEid)
  THEN SetComponent(w, kind, targetEid, Get(w, kind, sourceEid))
  ELSE w

\* a cloner without the has() test: a kind the source lacks is written with
\* an empty value
CloneOneDefaulting(w, kind, sourceEid, targetEid) ==
  SetComponent(w, kind, targetEid,
               IF Has(w, kind, sourceEid) THEN Get(w, kind, sourceEid)
               ELSE NoComponents)

\* lines 148-153: the forEach body for one kind of the registry
CloneOne(w, kind, sourceEid, targetEid) ==
  IF Has(w, kind, sourceEid)
  THEN SetComponent(w, kind, targetEid, Get(w, kind, sourceEid))
  ELSE w

\* the forEach over componentsForClone, in the order of the registry
RECURSIVE CloneFrom(_, _, _, _)
CloneFrom(w, i, sourceEid, targetEid) ==
  IF i > Len(componentsForClone) THEN w
  ELSE CloneFrom(CloneOne(w, componentsForClone[i], sourceEid, targetEid),
                 i + 1, sourceEid, targetEid)

cloneComponents(sourceEid, targetEid, w) == CloneFrom(w, 1, sourceEid, targetEid)

\* the sources of a call of cloneComponents: the entities of the world and
\* an id that names no entity
CloneSources == entities \cup {DanglingEid}

\* lines 147-154: one call cloneComponents(sourceEid, targetEid, world)
CloneCall(sourceEid, targetEid) ==
  /\ comps' = cloneComponents(sourceEid, targetEid, comps)
  /\ lastClone' = [source |-> sourceEid, target |-> targetEid]
  /\ UNCHANGED << entities, nextEid, schema, lastInteractionTime, ctrlState,
                  errorLog, acceptedLog, spawnLog, rejectedAtEdge, login >>

(* ---------------- Tap Place: src/index.ts:156-220 ---------------- *)

\* an onEnter that leaves the template as it is
HideTemplateMissing(w, entityToSpawn) == w

\* line 179: ecs.Disabled.set(world, entityToSpawn)
HideTemplate(w, entityToSpawn) ==
  SetComponent(w, "Disabled", entityToSpawn, TRUE)

\* a registration made by the login flow once it has finished
ComponentRegisteredAfterLogin(l) == l.pc = "done"

\* line 156: ecs.registerComponent is called at the top level of the module,
\* outside the async function of lines 3-112, whatever that function has done
ComponentRegistered(l) == TRUE

\* lines 174-181: onEnter of the initial state "default"
OnEnter(c) ==
  /\ ComponentRegistered(login)
  /\ ctrlState[c] = "none"
  /\ ctrlState' = [ctrlState EXCEPT ![c] = "default"]
  /\ comps' = IF schema[c].entityToSpawn # NoEid
              THEN HideTemplate(comps, schema[c].entityToSpawn)
              ELSE comps
  /\ rejectedAtEdge' = FALSE
  /\ UNCHANGED << entities, nextEid, schema, lastInteractionTime, errorLog,
                  acceptedLog, spawnLog, lastClone, login >>

\* a cooldown test written with < instead of <=
InCooldownStrict(currentTime, last) == currentTime - last < Cooldown

\* a cooldown test that forgets the clock can stand still or go back
InCooldownPositiveOnly(currentTime, last) ==
  /\ currentTime - last > 0
  /\ currentTime - last <= Cooldown

\* a cooldown test that is one millisecond too long
InCooldownOffByOne(currentTime, last) == currentTime - last <= Cooldown + 1

\* a cooldown test on the distance between the two readings
InCooldownAbsolute(currentTime, last) ==
  /\ currentTime - last <= Cooldown
  /\ last - currentTime <= Cooldown

\* line 186: the cooldown test that makes the listener return early
InCooldown(currentTime, last) == currentTime - last <= Cooldown

\* a scale computed from the wrong end of the range
RandomScaleFromMax(r, minScale, maxScale) ==
  r * (maxScale - minScale) + maxScale * RDen

\* line 196: Math.random() * (maxScale - minScale) + minScale, in units of
\* 1/RDen, with Math.random() = r / RDen
RandomScaleOf(r, minScale, maxScale) == r * (maxScale - minScale) + minScale * RDen

\* lines 201-212: the value given to ScaleAnimation
GrowIn(randomScale) ==
  [fromX |-> 0, fromY |-> 0, fromZ |-> 0,
   toX |-> randomScale, toY |-> randomScale, toZ |-> randomScale,
   duration |-> AnimDuration, loop |-> FALSE, easeOut |-> TRUE,
   easingFunction |-> "Quadratic"]

\* the writes of lines 198-212 with the position written before the clone
SpawnWritesPositionFirst(w, entityToSpawn, newEntity, worldPosition, randomScale) ==
  SetComponent(
    cloneComponents(entityToSpawn, newEntity,
                    SetComponent(w, "Position", newEntity, worldPosition)),
    "ScaleAnimation", newEntity, GrowIn(randomScale))

\* the writes of lines 198-212 with the animation written before the clone
SpawnWritesAnimationFirst(w, entityToSpawn, newEntity, worldPosition, randomScale) ==
  SetComponent(
    cloneComponents(entityToSpawn, newEntity,
                    SetComponent(w, "ScaleAnimation", newEntity, GrowIn(randomScale))),
    "Position", newEntity, worldPosition)

\* lines 198-212: the component writes on the new entity
SpawnWrites(w, entityToSpawn, newEntity, worldPosition, randomScale) ==
  SetComponent(
    SetComponent(cloneComponents(entityToSpawn, newEntity, w),
                 "Position", newEntity, worldPosition),
    "ScaleAnimation", newEntity, GrowIn(randomScale))

\* line 194: the test that chooses between spawning and the error report
TemplateSet(entityToSpawn) == entityToSpawn # NoEid

\* lines 186-188: the early return
RejectTap(c, currentTime) ==
  /\ rejectedAtEdge' = (currentTime - lastInteractionTime[c] = 500)
  /\ UNCHANGED << entities, nextEid, comps, lastInteractionTime,
                  errorLog, acceptedLog, spawnLog >>

\* a time stamp kept in one place for all the controllers
StampTapShared(c, currentTime) ==
  /\ lastInteractionTime' = [d \in Controllers |-> currentTime]
  /\ acceptedLog' = [acceptedLog EXCEPT ![c] = Append(@, currentTime)]
  /\ rejectedAtEdge' = FALSE

\* lines 190-192: dataAttribute.set(eid, {lastInteractionTime: currentTime})
StampTap(c, currentTime) ==
  /\ lastInteractionTime' = [lastInteractionTime EXCEPT ![c] = currentTime]
  /\ acceptedLog' = [acceptedLog EXCEPT ![c] = Append(@, currentTime)]
  /\ rejectedAtEdge' = FALSE

\* lines 195-212: create the entity, clone the template, place and animate
SpawnClone(c, currentTime, worldPosition, r) ==
  LET cfg == schema[c] IN
  /\ nextEid < FirstFreeEid + MaxSpawned
  /\ entities' = entities \cup {nextEid}
  /\ nextEid' = nextEid + 1
  /\ comps' = SpawnWrites(comps, cfg.entityToSpawn, nextEid, worldPosition,
                          RandomScaleOf(r, cfg.minScale, cfg.maxScale))
  /\ spawnLog' = [e \in (DOMAIN spawnLog) \cup {nextEid} |->
                    IF e = nextEid
                    THEN [ctrl |-> c, template |-> cfg.entityToSpawn,
                          pos |-> worldPosition, r |-> r, time |-> currentTime]
                    ELSE spawnLog[e]]
  /\ UNCHANGED errorLog

\* an else branch that reports nothing
ReportMissingSilent(c, currentTime) ==
  UNCHANGED << entities, nextEid, comps, spawnLog, errorLog >>

\* lines 213-217: console.error("Couldn't create a clone. ...")
ReportMissing(c, currentTime) ==
  /\ errorLog' = [errorLog EXCEPT ![c] = Append(@, currentTime)]
  /\ UNCHANGED << entities, nextEid, comps, spawnLog >>

\* lines 182-218: the SCREEN_TOUCH_START listener of controller c, with the
\* clock reading, the event's world position and the random draw as inputs
TouchStart(c, currentTime, worldPosition, r) ==
  /\ ctrlState[c] = "default"
  /\ IF InCooldown(currentTime, lastInteractionTime[c])
     THEN RejectTap(c, currentTime)
     ELSE /\ StampTap(c, currentTime)
          /\ IF TemplateSet(schema[c].entityToSpawn)
             THEN SpawnClone(c, currentTime, worldPosition, r)
             ELSE ReportMissing(c, currentTime)
  /\ UNCHANGED << schema, ctrlState, lastClone, login >>

Next ==
  \/ \E c \in Controllers : OnEnter(c)
  \/ \E c \in Controllers, t \in Times, r \in 0..(RDen - 1) :
       TouchStart(c, t, WorldPosition(c), r)

Spec == Init /\ [][Next]_vars

(* ---------------- LIFF login: src/index.ts:3-112 ---------------- *)

\* lines 51-54: the catch of initializeLiff logs the failure and returns null
Caught(l, step) ==
  [l EXCEPT !.errors = @ + 1, !.failed = step, !.userInfo = FALSE,
            !.pc = "main"]

Succeeded(l, step) == [l EXCEPT !.steps = Append(@, step)]

\* a branch that calls login() and goes on to getProfile
NotLoggedInContinue(l) ==
  [l EXCEPT !.loginCalls = @ + 1, !.pc = "getProfile"]

\* lines 37-41: not logged in: liff.login() is called and null is returned
NotLoggedIn(l) ==
  [l EXCEPT !.loginCalls = @ + 1, !.userInfo = FALSE, !.pc = "main"]

\* lines 20, 14: the SDK is there (already, or its script has loaded)
SdkLoaded ==
  /\ login.pc = "loadSdk"
  /\ login' = [Succeeded(login, "load") EXCEPT !.pc = "init"]
  /\ UNCHANGED tapVars

\* line 21: the script fails to load, loadLiffSDK rejects
SdkLoadFailed ==
  /\ login.pc = "loadSdk"
  /\ login' = Caught(login, "load")
  /\ UNCHANGED tapVars

\* lines 33-44: liff.init resolves and the function runs on to its next
\* await or return; isLoggedIn answers true or false, or it or login() throws
InitResolved(answer) ==
  /\ login.pc = "init"
  /\ login' =
       LET l == Succeeded(login, "init") IN
       CASE answer = "loggedIn" ->
              [Succeeded(l, "isLoggedIn") EXCEPT !.pc = "getProfile"]
         [] answer = "loggedOut" -> NotLoggedIn(l)
         [] answer = "loginThrows" ->
              Caught([l EXCEPT !.loginCalls = @ + 1], "login")
         [] OTHER -> Caught(l, "isLoggedIn")
  /\ UNCHANGED tapVars

\* line 33: liff.init rejects (or window.liff is not there)
InitFailed ==
  /\ login.pc = "init"
  /\ login' = Caught(login, "init")
  /\ UNCHANGED tapVars

\* lines 44-50: getProfile resolves, the user info is returned
ProfileResolved ==
  /\ login.pc = "getProfile"
  /\ login' = [Succeeded(login, "getProfile") EXCEPT !.userInfo = TRUE,
                                                    !.pc = "main"]
  /\ UNCHANGED tapVars

\* line 44: getProfile rejects
ProfileFailed ==
  /\ login.pc = "getProfile"
  /\ login' = Caught(login, "getProfile")
  /\ UNCHANGED tapVars

\* lines 79-99: setupWith8thWall, with window.XR8 there or not; createUserDisplay
\* completes, or throws (no document.body) into the catch of line 109
SetupWith8thWall(l, xr8, displayOk) ==
  LET stored == [l EXCEPT !.stored = @ + 1,
                          !.xr8Stored = IF xr8 THEN @ + 1 ELSE @] IN
  IF displayOk
  THEN [stored EXCEPT !.displays = @ + 1,
                      !.modules = IF xr8 THEN @ + 1 ELSE @]
  ELSE [stored EXCEPT !.errors = @ + 1, !.failed = "setup"]

\* lines 103-111: the main execution resumes with what initializeLiff returned
MainResume(xr8, displayOk) ==
  /\ login.pc = "main"
  /\ login' = [(IF login.userInfo
                THEN SetupWith8thWall(login, xr8, displayOk)
                ELSE login) EXCEPT !.pc = "done"]
  /\ UNCHANGED tapVars

LoginNext ==
  \/ SdkLoaded
  \/ SdkLoadFailed
  \/ \E answer \in {"loggedIn", "loggedOut", "loginThrows", "isLoggedInThrows"} :
       InitResolved(answer)
  \/ InitFailed
  \/ ProfileResolved
  \/ ProfileFailed
  \/ \E xr8 \in BOOLEAN, displayOk \in BOOLEAN : MainResume(xr8, displayOk)

\* the scene of the page: the first controller spawns template 3 with the
\* schemaDefaults, the second has no template
PageSchema ==
  [c \in Controllers |-> [entityToSpawn |-> IF c = 1 THEN 3 ELSE NoEid,
                          minScale |-> DefaultMinScale,
                          maxScale |-> DefaultMaxScale]]

\* the page: the login flow and the controllers, in any interleaving
InitPage == Init /\ schema = PageSchema

NextPage == Next \/ LoginNext

SpecPage == InitPage /\ [][NextPage]_vars

\* the scene of the specification below: no controller has a template
PlainSchema ==
  [c \in Controllers |-> [entityToSpawn |-> NoEid,
                          minScale |-> DefaultMinScale,
                          maxScale |-> DefaultMaxScale]]

\* the cloner alone: any sequence of calls of cloneComponents on the entities
\* of the initial scene
InitClone == Init /\ schema = PlainSchema

NextClone == \E s \in CloneSources, t \in entities : CloneCall(s, t)

SpecClone == InitClone /\ [][NextClone]_vars

(* ---------------- properties ---------------- *)

Abs(n) == IF n < 0 THEN 0 - n ELSE n

LastOf(q) == q[Len(q)]

Randoms == 0..(RDen - 1)

\* C1, first half: no two accepted taps of one controller are less than
\* 500 ms apart
AcceptedTapsApart ==
  \A c \in Controllers :
    \A i, j \in 1..Len(acceptedLog[c]) :
      i # j => Abs(acceptedLog[c][i] - acceptedLog[c][j]) >= 500

\* C1, second half: a touch event whose clock reading is within 500 ms of the
\* last accepted tap of its controller creates no entity
NoSpawnInsideCooldown ==
  [][\A c \in Controllers :
       \/ /\ entities' = entities
          /\ nextEid' = nextEid
          /\ acceptedLog'[c] = acceptedLog[c]
       \/ \A t \in Times, p \in TouchPositions, r \in Randoms :
            ~ ( /\ acceptedLog[c] # << >>
                /\ Abs(t - LastOf(acceptedLog[c])) <= 500
                /\ TouchStart(c, t, p, r) )]_vars

\* C1 Debounce invariant: for any sequence of touch-start events on one
\* controller and any sequence of clock readings, no two accepted taps are
\* less than 500 ms apart, and an event within 500 ms of the last accepted
\* tap never creates an entity
C1_Debounce == []AcceptedTapsApart /\ NoSpawnInsideCooldown

\* C1 witness: a controller has accepted two taps, the second of which spawned
C1_Witness ==
  \E c \in Controllers :
    /\ Len(acceptedLog[c]) = 2
    /\ \E e \in DOMAIN spawnLog :
         spawnLog[e].ctrl = c /\ spawnLog[e].time = acceptedLog[c][2]

\* C2 First-tap acceptance, as claimed: a touch-start event delivered to a
\* controller whose lastInteractionTime still has its initial value and that
\* has accepted no tap yet is accepted, whatever the clock reading is
C2_FirstTapAccepted ==
  [][\A c \in Controllers, t \in Times, p \in TouchPositions, r \in Randoms :
       ( /\ acceptedLog[c] = << >>
         /\ lastInteractionTime[c] = InitialInteractionTime
         /\ TouchStart(c, t, p, r) )
       => /\ acceptedLog'[c] = << t >>
          /\ lastInteractionTime'[c] = t]_vars

\* C3, the accepted tap of a controller without template: no entity and no
\* component is created, one error is reported and the tap time is stored
MissingTemplateStep ==
  [][\A c \in Controllers, t \in Times, p \in TouchPositions, r \in Randoms :
       ( /\ schema[c].entityToSpawn = NoEid
         /\ t - lastInteractionTime[c] > 500
         /\ TouchStart(c, t, p, r) )
       => /\ entities' = entities
          /\ nextEid' = nextEid
          /\ comps' = comps
          /\ errorLog'[c] = Append(errorLog[c], t)
          /\ lastInteractionTime'[c] = t]_vars

\* C3, the tap that follows a report within 500 ms is rejected: nothing is
\* reported, created or stored
MissingTemplateThrottled ==
  [][\A c \in Controllers :
       \/ /\ errorLog'[c] = errorLog[c]
          /\ entities' = entities
          /\ lastInteractionTime'[c] = lastInteractionTime[c]
       \/ \A t \in Times, p \in TouchPositions, r \in Randoms :
            ~ ( /\ schema[c].entityToSpawn = NoEid
                /\ errorLog[c] # << >>
                /\ Abs(t - LastOf(errorLog[c])) <= 500
                /\ TouchStart(c, t, p, r) )]_vars

\* C3, the reports of one controller are more than 500 ms apart, and a
\* controller without template never spawns
ReportsApart ==
  \A c \in Controllers :
    /\ \A i, j \in 1..Len(errorLog[c]) :
         i # j => Abs(errorLog[c][i] - errorLog[c][j]) > 500
    /\ schema[c].entityToSpawn = NoEid =>
         /\ errorLog[c] = acceptedLog[c]
         /\ \A e \in DOMAIN spawnLog : spawnLog[e].ctrl # c

\* C3 Missing-template safety: with entityToSpawn unset every accepted touch
\* event creates no entity, reports a configuration error and still sets
\* lastInteractionTime to the tap time, so a second tap within 500 ms is
\* rejected and errors are reported at most once per 500 ms
C3_MissingTemplate ==
  /\ []ReportsApart
  /\ MissingTemplateStep
  /\ MissingTemplateThrottled

\* C3 witness: the only controller that has entered its state has no
\* template, has reported an error, stored the time of that tap and has just
\* rejected a tap 500 ms after it
C3_Witness ==
  \E c \in Controllers :
    /\ schema[c].entityToSpawn = NoEid
    /\ Len(errorLog[c]) = 1
    /\ lastInteractionTime[c] = errorLog[c][1]
    /\ entities = Controllers \cup Templates
    /\ \A d \in Controllers \ {c} : ctrlState[d] = "none"
    /\ rejectedAtEdge

\* C4 Invalid-template safety, as claimed: an accepted touch event whose
\* template reference is set but names no entity of the world reports a
\* configuration error and creates no entity
C4_InvalidTemplate ==
  [][\A c \in Controllers, t \in Times, p \in TouchPositions, r \in Randoms :
       ( /\ schema[c].entityToSpawn # NoEid
         /\ schema[c].entityToSpawn \notin entities
         /\ t - lastInteractionTime[c] > 500
         /\ TouchStart(c, t, p, r) )
       => /\ entities' = entities
          /\ errorLog'[c] = Append(errorLog[c], t)]_vars

\* the scale of a spawned entity as the claims state it, in units of 1/RDen:
\* minScale + r * (maxScale - minScale) with r the draw of its tap
ClaimedScale(e) ==
  LET cfg == schema[spawnLog[e].ctrl] IN
  cfg.minScale * RDen + spawnLog[e].r * (cfg.maxScale - cfg.minScale)

\* C5 Scale bound, as claimed: with minScale <= maxScale (minScale = maxScale
\* included) the scale of every spawn is in [minScale, maxScale)
C5_ScaleHalfOpen ==
  \A e \in DOMAIN spawnLog :
    LET cfg == schema[spawnLog[e].ctrl] IN
    cfg.minScale <= cfg.maxScale =>
      /\ cfg.minScale * RDen <= comps[e]["ScaleAnimation"].toX
      /\ comps[e]["ScaleAnimation"].toX < cfg.maxScale * RDen

\* C5 Scale bound, amended: with minScale <= maxScale the scale of every
\* spawn is in [minScale, maxScale]
C5_ScaleClosed ==
  \A e \in DOMAIN spawnLog :
    LET cfg == schema[spawnLog[e].ctrl] IN
    cfg.minScale <= cfg.maxScale =>
      /\ cfg.minScale * RDen <= comps[e]["ScaleAnimation"].toX
      /\ comps[e]["ScaleAnimation"].toX <= cfg.maxScale * RDen

\* C5 witness: spawns with minScale = maxScale and with minScale < maxScale
\* and a draw above 0 have both happened
C5_Witness ==
  /\ \E e \in DOMAIN spawnLog :
       LET cfg == schema[spawnLog[e].ctrl] IN
       cfg.minScale = cfg.maxScale
  /\ \E e \in DOMAIN spawnLog :
       LET cfg == schema[spawnLog[e].ctrl] IN
       cfg.minScale < cfg.maxScale /\ spawnLog[e].r > 0

\* C6 Clone completeness at spawn: for every kind of the registry other than
\* Position and ScaleAnimation the spawned entity has the kind exactly when
\* its template has it, with the template's value
C6_CloneComplete ==
  \A e \in DOMAIN spawnLog :
    \A k \in RegistryKinds \ {"Position", "ScaleAnimation"} :
      LET t == spawnLog[e].template IN
      /\ (k \in DOMAIN comps[e]) <=> (k \in DOMAIN comps[t])
      /\ k \in DOMAIN comps[t] => comps[e][k] = comps[t][k]

\* C6 witness: an entity spawned from a live template that has Material and
\* GltfModel and no Audio
C6_Witness ==
  \E e \in DOMAIN spawnLog :
    LET t == spawnLog[e].template IN
    /\ t \in entities
    /\ {"Material", "GltfModel"} \subseteq DOMAIN comps[t]
    /\ "Audio" \notin DOMAIN comps[t]
    /\ "Material" \in DOMAIN comps[e]

\* C7 Placement override: every spawned entity has a Position, equal to the
\* world position of its touch event, whatever Position the template has
C7_PlacementOverride ==
  \A e \in DOMAIN spawnLog :
    /\ "Position" \in DOMAIN comps[e]
    /\ comps[e]["Position"] = spawnLog[e].pos

\* C7 witness: one entity spawned from a live template without Position and
\* one from a template whose Position differs from the tap's
C7_Witness ==
  /\ \E e \in DOMAIN spawnLog :
       /\ spawnLog[e].template \in entities
       /\ "Position" \notin DOMAIN comps[spawnLog[e].template]
  /\ \E e \in DOMAIN spawnLog :
       /\ "Position" \in DOMAIN comps[spawnLog[e].template]
       /\ comps[spawnLog[e].template]["Position"] # spawnLog[e].pos

\* C8 Template hiding: once a controller with a valid template has entered
\* its state, the template is disabled, in every later state
C8_TemplateHidden ==
  \A c \in Controllers :
    (ctrlState[c] = "default" /\ schema[c].entityToSpawn \in entities)
      => "Disabled" \in DOMAIN comps[schema[c].entityToSpawn]

\* C8 witness: a template is still disabled after two spawns from it
C8_Witness ==
  \E c \in Controllers :
    /\ schema[c].entityToSpawn \in entities
    /\ "Disabled" \in DOMAIN comps[schema[c].entityToSpawn]
    /\ Cardinality({e \in DOMAIN spawnLog : spawnLog[e].ctrl = c}) = 2

\* C9 Grow-in animation contract: the ScaleAnimation of every spawned entity
\* goes from 0 on the three axes to the computed scale on the three axes, in
\* 400 ms, non-looping, ease-out quadratic, whatever the template's is
C9_GrowIn ==
  \A e \in DOMAIN spawnLog :
    /\ "ScaleAnimation" \in DOMAIN comps[e]
    /\ comps[e]["ScaleAnimation"] =
         [fromX |-> 0, fromY |-> 0, fromZ |-> 0,
          toX |-> ClaimedScale(e), toY |-> ClaimedScale(e),
          toZ |-> ClaimedScale(e),
          duration |-> 400, loop |-> FALSE, easeOut |-> TRUE,
          easingFunction |-> "Quadratic"]

\* C9 witness: an entity spawned from a template that has a ScaleAnimation of
\* its own
C9_Witness ==
  \E e \in DOMAIN spawnLog :
    /\ "ScaleAnimation" \in DOMAIN comps[spawnLog[e].template]
    /\ comps[spawnLog[e].template]["ScaleAnimation"] # comps[e]["ScaleAnimation"]

\* C10 Rejected taps change nothing: a touch event with
\* now - lastInteractionTime <= 500 (exactly 500 included) leaves
\* lastInteractionTime, the entities, every component and the error log as
\* they are
C10_RejectedChangesNothing ==
  [][\/ UNCHANGED << lastInteractionTime, entities, nextEid, comps, errorLog >>
     \/ \A c \in Controllers, t \in Times, p \in TouchPositions, r \in Randoms :
          ~ ( /\ t - lastInteractionTime[c] <= 500
              /\ TouchStart(c, t, p, r) )]_vars

\* C10 witness: the only controller that has entered its state has spawned
\* and has then rejected a tap exactly 500 ms after the accepted one
C10_Witness ==
  \E c \in Controllers :
    /\ \A d \in Controllers \ {c} : ctrlState[d] = "none"
    /\ \E e \in DOMAIN spawnLog : spawnLog[e].time = lastInteractionTime[c]
    /\ rejectedAtEdge

\* the entities a controller has spawned
SpawnedBy(c) == {e \in DOMAIN spawnLog : spawnLog[e].ctrl = c}

\* the clock reading of the last accepted tap of a controller, or the initial
\* value of lastInteractionTime when it has accepted none
OwnLastAccepted(c) ==
  IF acceptedLog[c] = << >> THEN 0 ELSE LastOf(acceptedLog[c])

\* C11, the accepted tap: a touch event with now - lastInteractionTime > 500
\* is accepted, stores now, and with a valid template adds exactly one entity
AcceptedTapStep ==
  [][\A c \in Controllers, t \in Times, p \in TouchPositions, r \in Randoms :
       ( /\ t - lastInteractionTime[c] > 500
         /\ TouchStart(c, t, p, r) )
       => /\ lastInteractionTime'[c] = t
          /\ acceptedLog'[c] = Append(acceptedLog[c], t)
          /\ schema[c].entityToSpawn \in entities =>
               /\ entities \subseteq entities'
               /\ Cardinality(entities') = Cardinality(entities) + 1]_vars

\* C11, the count: a controller with a configured template has spawned as many
\* entities as it has accepted taps, one without template none, and the world
\* holds the initial entities and the spawned ones
OneEntityPerAcceptedTap ==
  /\ \A c \in Controllers :
       Cardinality(SpawnedBy(c)) =
         IF schema[c].entityToSpawn # NoEid THEN Len(acceptedLog[c]) ELSE 0
  /\ entities = Controllers \cup Templates \cup DOMAIN spawnLog
  /\ (Controllers \cup Templates) \cap DOMAIN spawnLog = {}

\* C11, the steady state: a controller that has entered its state stays in it
StaysArmed ==
  [][\A c \in Controllers :
       ctrlState[c] = "default" => ctrlState'[c] = "default"]_vars

\* C11 Acceptance and one entity per accepted tap: every touch event with
\* now - lastInteractionTime > 500 is accepted and sets lastInteractionTime to
\* now, with a valid template it creates exactly one entity, the number of
\* spawned entities is the number of accepted taps that saw a configured
\* template, and the controller never leaves its state
C11_OnePerAcceptedTap ==
  /\ []OneEntityPerAcceptedTap
  /\ AcceptedTapStep
  /\ StaysArmed

\* C11 witness: one controller has accepted two taps 501 ms apart and spawned
\* an entity for each
C11_Witness ==
  \E c \in Controllers :
    /\ Len(acceptedLog[c]) = 2
    /\ acceptedLog[c][2] - acceptedLog[c][1] = 501
    /\ Cardinality(SpawnedBy(c)) = 2
    /\ schema[c].entityToSpawn \in entities

\* C14, the value: lastInteractionTime is the reading of the most recent
\* accepted tap, or its initial value
StampIsLastAccepted ==
  \A c \in Controllers :
    lastInteractionTime[c] =
      IF acceptedLog[c] = << >> THEN InitialInteractionTime
      ELSE LastOf(acceptedLog[c])

\* C14, the writes: lastInteractionTime changes only in a step that accepts a
\* tap, and never decreases
StampOnlyGrows ==
  [][\A c \in Controllers :
       \/ lastInteractionTime'[c] = lastInteractionTime[c]
       \/ /\ lastInteractionTime'[c] > lastInteractionTime[c]
          /\ acceptedLog'[c] = Append(acceptedLog[c], lastInteractionTime'[c])
          /\ \E t \in Times, p \in TouchPositions, r \in Randoms :
               TouchStart(c, t, p, r) /\ t = lastInteractionTime'[c]]_vars

\* C14 Cooldown timestamp invariant: lastInteractionTime is written only by an
\* accepted tap, equals the clock reading of the most recent accepted tap (or
\* its initial value) and never decreases, whatever the clock readings are
C14_StampInvariant == []StampIsLastAccepted /\ StampOnlyGrows

\* C14 witness: a controller without template holds the reading of the second
\* of its two accepted taps
C14_Witness ==
  \E c \in Controllers :
    /\ Len(errorLog[c]) = 2
    /\ Len(acceptedLog[c]) = 2
    /\ lastInteractionTime[c] = acceptedLog[c][2]
    /\ lastInteractionTime[c] > acceptedLog[c][1]

\* C15 Per-controller cooldown independence: a touch event handled for one
\* controller leaves the lastInteractionTime of the others as it is, and a tap
\* is accepted exactly when it is more than 500 ms after the last accepted tap
\* of its own controller
C15_Independence ==
  [][\A a \in Controllers :
       \/ /\ lastInteractionTime' = lastInteractionTime
          /\ acceptedLog' = acceptedLog
       \/ \A t \in Times, p \in TouchPositions, r \in Randoms :
            TouchStart(a, t, p, r) =>
              /\ \A b \in Controllers \ {a} :
                   /\ lastInteractionTime'[b] = lastInteractionTime[b]
                   /\ acceptedLog'[b] = acceptedLog[b]
              /\ (acceptedLog'[a] # acceptedLog[a])
                   <=> (t - OwnLastAccepted(a) > 500)]_vars

\* C15 witness: the two controllers have accepted taps less than 500 ms apart
\* from each other
C15_Witness ==
  \E a, b \in Controllers :
    /\ a # b
    /\ acceptedLog[a] # << >>
    /\ acceptedLog[b] # << >>
    /\ lastInteractionTime[b] - lastInteractionTime[a] \in 0..500

\* C16 Spawned entities are never disabled: no spawned entity has the
\* Disabled kind, whatever the state of its template
C16_SpawnedNeverDisabled ==
  \A e \in DOMAIN spawnLog : "Disabled" \notin DOMAIN comps[e]

\* C16 witness: an entity spawned from a template that is disabled
C16_Witness ==
  \E e \in DOMAIN spawnLog :
    /\ spawnLog[e].template \in entities
    /\ "Disabled" \in DOMAIN comps[spawnLog[e].template]

\* C12 Entity Cloner semantics and frame: a call clone(source, target)
\* gives the target the source's value for every registry kind the source
\* has, overwriting what the target had, and changes nothing else: the source
\* and every other entity keep their components, the target keeps its kinds
\* the source lacks, no entity is created or destroyed and
\* lastInteractionTime is left alone
C12_ClonerFrame ==
  [][\A s \in CloneSources, t \in entities :
       CloneCall(s, t) =>
         /\ \A k \in RegistryKinds :
              k \in DOMAIN comps[s] =>
                /\ k \in DOMAIN comps'[t]
                /\ comps'[t][k] = comps[s][k]
         /\ \A k \in (DOMAIN comps[t]) \cup (DOMAIN comps'[t]) :
              (k \notin RegistryKinds \/ k \notin DOMAIN comps[s]) =>
                /\ k \in DOMAIN comps[t]
                /\ k \in DOMAIN comps'[t]
                /\ comps'[t][k] = comps[t][k]
         /\ \A e \in Eids \ {t} : comps'[e] = comps[e]
         /\ comps'[s] = comps[s]
         /\ entities' = entities
         /\ nextEid' = nextEid
         /\ lastInteractionTime' = lastInteractionTime]_vars

\* C12 witness: the last call cloned entity 3 onto entity 4, whose
\* Material is now that of entity 3 and whose Audio is still its own
C12_Witness ==
  /\ lastClone = [source |-> 3, target |-> 4]
  /\ comps[4]["Material"] = TemplateValue("Material", 1)
  /\ comps[4]["Audio"] = TemplateValue("Audio", 2)
  /\ "Audio" \notin DOMAIN comps[3]

\* C13 Cloner failure mode: a call clone(source, target) whose source names
\* no entity copies nothing and leaves every component as it is
C13_ClonerInvalidSource ==
  [][\A s \in CloneSources, t \in entities :
       (s \notin entities /\ CloneCall(s, t)) => comps' = comps]_vars

\* C13 witness: the last call cloned the dangling id onto entity 4, which has
\* its components
C13_Witness ==
  /\ lastClone = [source |-> DanglingEid, target |-> 4]
  /\ DOMAIN comps[4] = RegistryKinds


(* ---------------- C17: the order of the login flow ---------------- *)

LoginSteps == << "load", "init", "isLoggedIn", "getProfile" >>

FlowSteps == {"load", "init", "isLoggedIn", "login", "getProfile"}

\* the user info is stored, and the display created, at most once
StoredAtMostOnce ==
  /\ login.stored <= 1
  /\ login.xr8Stored <= 1
  /\ login.displays <= 1

\* storing and displaying come only after the four steps, in their order
StoredOnlyAfterSteps ==
  (login.stored > 0 \/ login.xr8Stored > 0 \/ login.displays > 0)
    => /\ login.steps = LoginSteps
       /\ login.loginCalls = 0
       /\ login.failed \notin FlowSteps

\* not logged in: login() has been called, nothing is stored or displayed
LoggedOutStoresNothing ==
  login.loginCalls > 0
    => /\ login.loginCalls = 1
       /\ login.steps = << "load", "init" >>
       /\ login.stored = 0 /\ login.xr8Stored = 0 /\ login.displays = 0

\* a step of the flow failed: logged, nothing stored or displayed
FailureLoggedStoresNothing ==
  login.failed \in FlowSteps
    => /\ login.errors = 1
       /\ login.stored = 0 /\ login.xr8Stored = 0 /\ login.displays = 0

\* C17: the LINE user info is stored and the user display created at most
\* once, and only after SDK load, liff.init, a true isLoggedIn and getProfile
\* have succeeded in that order; when the user is not logged in, login() is
\* called and nothing is stored or displayed; when one of these steps fails,
\* the failure is logged, nothing is stored or displayed, and no exception
\* escapes the flow.
C17_LoginOrdering ==
  /\ StoredAtMostOnce
  /\ StoredOnlyAfterSteps
  /\ LoggedOutStoresNothing
  /\ FailureLoggedStoresNothing
  /\ ~login.escaped

\* the flow has finished with the user info stored and displayed, while a
\* controller has spawned an entity
C17_Witness ==
  /\ login.pc = "done"
  /\ login.stored = 1 /\ login.displays = 1
  /\ login.steps = LoginSteps
  /\ spawnLog # << >>

(* ------------- C18: the controllers and the login flow ------------- *)

\* a step of the login flow leaves the controllers and the world alone
LoginLeavesTapAlone == [][login' # login => UNCHANGED tapVars]_vars

\* a step of a controller leaves the login flow alone
TapLeavesLoginAlone == [][tapVars' # tapVars => login' = login]_vars

\* wherever the login flow is, a controller that is not started can start,
\* and the listener of a started one takes a tap that it rejects or reports
\* (the taps that spawn are the matter of DecisionWhateverLogin)
TapTakenWhateverLogin ==
  \A c \in Controllers :
    /\ ctrlState[c] = "none" => ENABLED OnEnter(c)
    /\ ctrlState[c] = "default" =>
         \A t \in Times :
           (\/ InCooldown(t, lastInteractionTime[c])
            \/ ~TemplateSet(schema[c].entityToSpawn))
             => ENABLED TouchStart(c, t, WorldPosition(c), 0)

\* wherever the login flow is, a tap is accepted exactly when it comes more
\* than the cooldown after the controller's last accepted tap, and an accepted
\* tap with a template spawns one entity
DecisionWhateverLogin ==
  [][\A c \in Controllers :
       /\ \/ /\ lastInteractionTime'[c] = lastInteractionTime[c]
             /\ SpawnedBy(c)' = SpawnedBy(c)
          \/ /\ lastInteractionTime'[c] - OwnLastAccepted(c) > Cooldown
             /\ Cardinality(SpawnedBy(c)') =
                  Cardinality(SpawnedBy(c))
                    + (IF TemplateSet(schema[c].entityToSpawn) THEN 1 ELSE 0)
       /\ \/ lastInteractionTime'[c] # lastInteractionTime[c]
          \/ \A t \in Times, r \in Randoms :
               ~ /\ ctrlState[c] = "default"
                 /\ t - OwnLastAccepted(c) > Cooldown
                 /\ TouchStart(c, t, WorldPosition(c), r) ]_vars

\* C18: the tap-spawn controller is registered and handles touch events the
\* same way whether the login flow has not finished, has succeeded, has
\* called login() or has failed: in every interleaving the two leave each
\* other's state alone and the decisions and spawned entities are the same.
C18_LoginIndependent ==
  /\ LoginLeavesTapAlone
  /\ TapLeavesLoginAlone
  /\ []TapTakenWhateverLogin
  /\ DecisionWhateverLogin

\* the login flow is half way, waiting for getProfile, and the controllers
\* have already spawned an entity, reported a missing template and rejected a
\* tap
C18_Witness ==
  /\ login.pc = "getProfile"
  /\ spawnLog # << >>
  /\ \E c \in Controllers : errorLog[c] # << >>
  /\ rejectedAtEdge
====
